---- MODULE Spec2Model ----
(***************************************************************************)
(* A model of the login-flow server of src/app3.js (and, where they        *)
(* differ, src/app2.js): the process-wide `sessions` registry, the express *)
(* handlers as processes that run from one `await` to the next, the        *)
(* puppeteer browsers they launch and the remote page each browser shows.  *)
(*                                                                         *)
(* A handler runs synchronously up to its first `await`; every later       *)
(* `await` on the browser is a point where other handlers and the remote   *)
(* site may act.  One action of the model is one such run.                 *)
(***************************************************************************)
EXTENDS Integers, Sequences, FiniteSets, TLC

\* Bounds of the model.
MaxInFlight == 2      \* request slots: handlers that may be running at once
MaxArrivals == 2      \* requests received in one run of Spec
MaxLogins == 2        \* requests received in one run of SpecLogin
MaxCodes == 3         \* requests received in one run of SpecCode
MaxFrames == 4        \* frames of a frame tree in SpecFrames

Reqs == 1..MaxInFlight

\* Session ids a caller may put in a request body, and the ids uuidv4() draws.
SessionIds == {"s1", "s2"}
UuidPool == {"u1"}
Ids == SessionIds \cup UuidPool
Null == "null"                 \* a missing (falsy) sessionId
NoSession == 0                 \* sessions[id] is undefined

(***************************************************************************)
(* JavaScript values of a JSON request field, with the coercions the       *)
(* handlers' conditions apply to them.                                     *)
(***************************************************************************)
Undefined == [t |-> "undefined", v |-> 0]
Num(n) == [t |-> "number", v |-> n]
Str == [t |-> "string", v |-> 0]      \* a non-empty, non-numeric string
NumStr(n) == [t |-> "numstr", v |-> n] \* a string holding the decimal n

\* !x
JsNot(x) == \/ x.t = "undefined"
            \/ x.t = "number" /\ x.v = 0
\* ToNumber(x) is NaN
JsIsNaN(x) == x.t \in {"undefined", "string"}
\* x < n and x > n for a number n: false when ToNumber(x) is NaN
JsLess(x, n) == ~JsIsNaN(x) /\ x.v < n
JsGreater(x, n) == ~JsIsNaN(x) /\ x.v > n

(***************************************************************************)
(* Responses: res.status(s).send(text) and res.status(s).json({key: text}) *)
(***************************************************************************)
NoResp == [status |-> 0, kind |-> "none", body |-> ""]
Send(status, text) == [status |-> status, kind |-> "text", body |-> text]
Json(status, key, text) == [status |-> status, kind |-> key, body |-> text]

SessionIdRequired(op) ==
  IF op = "security" THEN Send(400, "Session ID is required")
  ELSE Json(400, "error", "Session ID is required")
\* (an unknown id reported as a missing one)
SessionNotFoundAsMissing(op) == SessionIdRequired(op)

SessionNotFound(op) ==
  IF op = "security" THEN Send(400, "Session not found")
  ELSE Json(400, "error", "Session not found")

(***************************************************************************)
(* Request bodies.  A text field is "" when it is missing or empty (both   *)
(* are falsy); a phone number is the sequence of its characters.           *)
(***************************************************************************)
EmptyBody == [sessionId |-> Null, email |-> "", tileNumber |-> Undefined,
              code |-> "", phone |-> <<>>, countryCode |-> "", query |-> <<>>]

Digits(n) == [i \in 1..n |-> "5"]

(***************************************************************************)
(* File names.  A text is the sequence of its pieces; the piece "/" is the *)
(* path separator and ".." the parent directory.  A path is the sequence   *)
(* of its segments, relative to puzzleDir.                                 *)
(***************************************************************************)
\* a session id as text
IdText(sid) == <<sid>>

\* `puzzle_piece_${sessionId}.png`
PieceName(id) == <<"puzzle_piece_">> \o id \o <<".png">>

\* the segments of a text, split at each "/"
RECURSIVE Segments(_)
Segments(text) ==
  IF text = <<>> THEN << <<>> >>
  ELSE LET rest == Segments(Tail(text)) IN
       IF Head(text) = "/" THEN << <<>> >> \o rest
       ELSE << <<Head(text)>> \o Head(rest) >> \o Tail(rest)

\* path.normalize: empty and "." segments dropped, ".." removes the segment
\* before it
RECURSIVE Normalize(_, _)
Normalize(segs, out) ==
  IF segs = <<>> THEN out
  ELSE LET seg == Head(segs) IN
       IF seg = <<>> \/ seg = <<".">> THEN Normalize(Tail(segs), out)
       ELSE IF seg = <<"..">> /\ out # <<>> /\ out[Len(out)] # <<"..">>
       THEN Normalize(Tail(segs), SubSeq(out, 1, Len(out) - 1))
       ELSE Normalize(Tail(segs), Append(out, seg))

\* path.join(__dirname, "public", "images", "puzzle", `puzzle_piece_${sessionId}.png`)
ImagePath(id) == Normalize(Segments(PieceName(id)), <<>>)

\* where the browser saves a download named by link.download
DownloadPath(sid) == <<PieceName(IdText(sid))>>

\* an id whose image path leaves the "puzzle_piece_" segment and names the
\* file of another id
TraversalId(sid) == <<"/", "..", "/", "puzzle_piece_", sid>>

\* The ids asked of check-puzzle-image, and the files they and the downloads name
QueryIds == {IdText(sid) : sid \in Ids} \cup {TraversalId("s1")}
Paths == {ImagePath(id) : id \in QueryIds} \cup {DownloadPath(sid) : sid \in Ids}

\* The remote page a browser shows, as far as the handlers read it.
\*   url     page.url()
\*   banner  the .body__banner--error element: none, hidden (hidden__imp), visible
\*   pin     input[name="pin"] and button[type="submit"] are present
\*   form    the phone registration form is present
\*   header  text of h1.content__header ("" when there is none)
\*   alert   text of the banner's span[role="alert"] ("" when there is none)
\*   tiles   number of tile elements in each frame of page.frames()
\*   start   per frame, what evaluating the start-control search gives there:
\*           "match" (a control is found and clicked), "none", "throws"
\*   blob    the blob the first tile's background image names (0: not a blob url)
\* The main frame is frame 1; the other frames are its child frames, in order.
LoginUrl == "https://www.linkedin.com/login"
ChallengeUrl == "https://www.linkedin.com/checkpoint/challenge/verify"
DeadEndUrl == "https://www.linkedin.com/checkpoint/lg/login-challenge-submit"
FeedUrl == "https://www.linkedin.com/feed/"
Urls == {LoginUrl, ChallengeUrl, DeadEndUrl, FeedUrl}

\* url.includes(needle), for the needles the handlers look for
Includes(url, needle) ==
  CASE needle = "/login-challenge-submit" -> url = DeadEndUrl
    [] needle = "feed" -> url = FeedUrl
    [] OTHER -> FALSE

InitPage == [url |-> LoginUrl, banner |-> "none", pin |-> FALSE,
             form |-> FALSE, header |-> "", alert |-> "", tiles |-> <<0, 0>>,
             start |-> <<"none", "none">>, blob |-> 0]

VARIABLES
  sessions,   \* the registry: session id -> handle (index of launched), or NoSession
  launched,   \* one entry per puppeteer.launch(): the session id it was launched for
  page,       \* page[h]: what the page of browser h shows now
  req,        \* req[r]: the handler running in slot r (its body, position, locals)
  files,      \* files[path]: the blob saved at path in puzzleDir (0: no file)
  arrivals,   \* requests the server will still receive
  call        \* a call of the frame search on its own: its tree and its result

vars == <<sessions, launched, page, req, files, arrivals, call>>

Idle == [op |-> "none", body |-> EmptyBody, sid |-> Null, pc |-> "idle",
         h |-> 0, touched |-> FALSE, mutated |-> FALSE,
         resp |-> NoResp, sends |-> 0, idx |-> 0, url |-> "", err |-> FALSE,
         clicks |-> 0, changed |-> FALSE, count |-> 0, searches |-> 0,
         ready |-> FALSE, broke |-> FALSE, pwerr |-> FALSE, seen |-> FALSE,
         again |-> FALSE, pre |-> "", shown |-> "none",
         ret |-> "none", prior |-> 0]

\* no call of the frame search on its own
NoCall == [tree |-> <<>>, state |-> "none", found |-> FALSE, threw |-> FALSE, log |-> <<>>]

\* The server after start-up: `let sessions = {}`, no browser, no request.
Started ==
  /\ sessions = [id \in Ids |-> NoSession]
  /\ launched = <<>>
  /\ page = <<>>
  /\ req = [r \in Reqs |-> Idle]
  /\ files = [f \in Paths |-> 0]
  /\ call = NoCall

\* A slot is free when no handler is running in it.
Free(r) == req[r].pc \in {"idle", "done"}

\* express hands a request to its handler.  Slots are interchangeable: a
\* request takes the lowest slot never used, or else the lowest one whose
\* handler has returned.
Received(r, op, body) ==
  /\ Free(r)
  /\ \A r2 \in Reqs : r2 < r => req[r2].pc # "idle"
  /\ req[r].pc = "done" => \A r2 \in Reqs : req[r2].pc # "idle" /\ (r2 < r => ~Free(r2))
  /\ arrivals > 0
  /\ arrivals' = arrivals - 1

Start(op, body) == [Idle EXCEPT !.op = op, !.body = body, !.sid = body.sessionId]

\* res.send / res.json, and the handler returns
Reply(q, out) ==
  [q EXCEPT !.resp = IF q.sends = 0 THEN out ELSE q.resp,
            !.sends = q.sends + 1, !.pc = "done"]

\* (a status poll whose catch branch reports the failure)
StatusFailureReported == Json(500, "error", "Failed to check login status")

\* check-login-status's catch branch: res.send("0")
StatusFailure == Send(200, "0")

\* the handler's catch branch
Failure(op) ==
  CASE op \in {"login", "login2"} -> Send(500, "err")
    [] op = "status" -> StatusFailure
    [] op = "security" -> Json(500, "error", "Failed to get puzzle tiles")
    [] op \in {"selectTile", "selectTile2"} -> Json(500, "error", "Failed to select tile")
    [] op \in {"verifyCode", "verifySms"} ->
         Json(500, "error", "Failed to submit verification code")
    [] op = "verifyPhone" -> Json(500, "error", "Failed to submit phone number")
    [] op = "updatePhone" -> Json(500, "error", "Failed to update phone number")

(***************************************************************************)
(* POST /api/linkedin/login (app3.js)                                      *)
(***************************************************************************)
LoginBodies ==
  {[EmptyBody EXCEPT !.sessionId = s, !.email = e] :
     s \in SessionIds \cup {Null}, e \in {"", "user@example.com"}}

\* uuidv4(): an id no session and no running handler holds
FreshIds == {u \in UuidPool : sessions[u] = NoSession /\ \A r \in Reqs : req[r].sid # u}

\* (a registry that never reports an id as taken)
SessionExistsNever(sid) == FALSE

\* if (sessions[sessionId])
SessionExists(sid) == sessions[sid] # NoSession

\* The handler up to its first await, for the session id `sid` it works with.
LoginPrefix(body, sid) ==
  IF body.email = ""
  THEN Reply(Start("login", body), Send(400, "Email is required"))
  ELSE IF SessionExists(sid)
  THEN Reply([Start("login", body) EXCEPT !.sid = sid], Send(400, "Session already exists"))
  ELSE [Start("login", body) EXCEPT !.sid = sid, !.pc = "launch"]

LoginArrive(r, body) ==
  /\ Received(r, "login", body)
  /\ \E sid \in Ids :
       /\ IF body.sessionId # Null THEN sid = body.sessionId
          ELSE IF body.email = "" THEN sid = CHOOSE u \in Ids : TRUE
          ELSE sid \in FreshIds
       /\ req' = [req EXCEPT ![r] = LoginPrefix(body, sid)]
  /\ UNCHANGED <<sessions, launched, page, files, call>>

\* puppeteer.launch() and browser.newPage()
LoginLaunch(r) ==
  /\ req[r].op = "login" /\ req[r].pc = "launch"
  /\ launched' = Append(launched, req[r].sid)
  /\ page' = Append(page, InitPage)
  /\ req' = [req EXCEPT ![r] = [req[r] EXCEPT !.h = Len(launched) + 1, !.touched = TRUE,
                                               !.pc = "submit"]]
  /\ UNCHANGED <<sessions, files, arrivals, call>>

\* setUserAgent, goto, waitForSelector, type, click; then the session is
\* registered and the caller answered.  The handler goes on to the puzzle.
\* Whether the site shows #error-for-password after the click is not read
\* here; pwerr records it for the claims only.
\* (a login that answers "1" and registers nothing)
LoginSubmitAnswersFirst(r) ==
  /\ req[r].op = "login" /\ req[r].pc = "submit"
  /\ \E passwordError \in BOOLEAN :
       req' = [req EXCEPT ![r] =
         [Reply(req[r], Send(200, "1")) EXCEPT !.mutated = TRUE, !.pc = "captcha",
                                               !.pwerr = passwordError]]
  /\ UNCHANGED <<sessions, launched, page, files, arrivals, call>>

LoginSubmit(r) ==
  /\ req[r].op = "login" /\ req[r].pc = "submit"
  /\ sessions' = [sessions EXCEPT ![req[r].sid] = req[r].h]
  /\ \E passwordError \in BOOLEAN :
       req' = [req EXCEPT ![r] =
         [Reply(req[r], Send(200, "1")) EXCEPT !.mutated = TRUE, !.pc = "captcha",
                                               !.pwerr = passwordError]]
  /\ UNCHANGED <<launched, page, files, arrivals, call>>

\* An awaited call on the browser rejects (the page closed, a wait timed out):
\* control passes to the handler's catch branch, which sends the 500 outcome.
\* After launch the browser stays open; nothing is removed from the registry.
\* (broke records, for the claims, that the handler ended this way.)
Awaiting(q) == q.pc \notin {"idle", "done"}

\* The awaited calls at q's position can reject into the handler's catch
\* branch.  Login's start-control search cannot: its delays never reject and
\* its evaluations are caught.  Nor can the address watch of app2.js's
\* select-tile, whose own try block catches them.
CanReject(q) ==
  /\ Awaiting(q)
  /\ ~(q.op \in {"login", "login2"} /\ q.pc = "captcha")
  /\ ~(q.op = "selectTile2" /\ q.pc \in {"race", "compare"})
  /\ ~(q.op = "selectTile" /\ q.pc \in {"baseline", "race", "compare", "header", "caught"})

\* (a catch branch that also drops the session)
ThrowClosingSession(r) ==
  /\ CanReject(req[r])
  /\ req' = [req EXCEPT ![r] = Reply([req[r] EXCEPT !.touched = TRUE, !.broke = TRUE],
                                   Failure(req[r].op))]
  /\ sessions' = [sessions EXCEPT ![req[r].sid] = NoSession]
  /\ UNCHANGED <<launched, page, files, arrivals, call>>

Throw(r) ==
  /\ CanReject(req[r])
  /\ req' = [req EXCEPT ![r] = Reply([req[r] EXCEPT !.touched = TRUE, !.broke = TRUE],
                                   Failure(req[r].op))]
  /\ UNCHANGED <<sessions, launched, page, files, arrivals, call>>

(***************************************************************************)
(* The stage operations begin alike: validate the body, then look the      *)
(* session up.  Validate(op, body) is the first failed check's response,   *)
(* or NoResp when the body passes.                                         *)
(***************************************************************************)
StageOps == {"security", "selectTile", "verifyCode", "verifySms", "verifyPhone", "updatePhone"}
CodeOps == {"verifyCode", "verifySms"}
PhoneOps == {"verifyPhone", "updatePhone"}

\* if (!tileNumber || tileNumber < 1 || tileNumber > 6)
BadTile(t) == JsNot(t) \/ JsLess(t, 1) \/ JsGreater(t, 6)

\* The tile selections for the session that clicked a tile and have ended,
\* and how many such selections are known to have come before the one that
\* arrives (kept for the claims).
EndedSelections(sid) ==
  {r \in Reqs : /\ req[r].op = "selectTile" /\ req[r].sid = sid
                /\ req[r].pc = "done" /\ req[r].clicks > 0}

SelectionsBefore(op, sid) ==
  IF op # "selectTile" \/ EndedSelections(sid) = {} THEN 0
  ELSE LET last == CHOOSE r \in EndedSelections(sid) :
                     \A r2 \in EndedSelections(sid) : req[r2].prior <= req[r].prior
       IN req[last].prior + 1

\* (a handler that refuses a third tile selection for a session)
ValidateWithCeiling(op, body) ==
  IF body.sessionId # Null /\ SelectionsBefore(op, body.sessionId) >= 2
  THEN Json(400, "error", "Too many attempts")
  ELSE IF body.sessionId = Null THEN SessionIdRequired(op)
    ELSE CASE op = "security" -> NoResp
           [] op = "selectTile" ->
                IF BadTile(body.tileNumber)
                THEN Json(400, "error", "Valid tile number (1-6) is required")
                ELSE NoResp
           [] op \in CodeOps ->
                IF body.code = ""
                THEN Json(400, "error", "Verification code is required")
                ELSE NoResp
           [] op \in PhoneOps ->
                IF body.phone = <<>> THEN Json(400, "error", "Phone number is required")
                ELSE IF body.countryCode = ""
                THEN Json(400, "error", "Country code is required")
                ELSE NoResp

\* The checks of the body, in the handler's order; NoResp when it passes.
Validate(op, body) ==
  IF body.sessionId = Null THEN SessionIdRequired(op)
  ELSE CASE op = "security" -> NoResp
         [] op = "selectTile" ->
              IF BadTile(body.tileNumber)
              THEN Json(400, "error", "Valid tile number (1-6) is required")
              ELSE NoResp
         [] op \in CodeOps ->
              IF body.code = ""
              THEN Json(400, "error", "Verification code is required")
              ELSE NoResp
         [] op \in PhoneOps ->
              IF body.phone = <<>> THEN Json(400, "error", "Phone number is required")
              ELSE IF body.countryCode = ""
              THEN Json(400, "error", "Country code is required")
              ELSE NoResp

\* The position a stage handler reaches once its session is found.
FirstPc(op) ==
  CASE op \in {"security", "selectTile"} -> "frame"
    [] OTHER -> "wait"

\* Whether the page shows what the operation acts on (its form, a tile at the
\* requested index) when the request arrives; kept for the claims only.
Shows(op, body, p) ==
  CASE op \in CodeOps -> p.pin
    [] op \in PhoneOps -> p.form
    [] op = "selectTile" ->
         \E f \in 1..Len(p.tiles) :
            ~JsIsNaN(body.tileNumber) /\ 1 <= body.tileNumber.v
              /\ body.tileNumber.v <= p.tiles[f]
    [] OTHER -> TRUE

\* (a handler that fetches its page and probes it before it checks the body)
StagePrefixProbing(op, body) ==
  IF body.sessionId = Null THEN Reply(Start(op, body), SessionIdRequired(op))
  ELSE IF ~SessionExists(body.sessionId)
  THEN Reply(Start(op, body), SessionNotFound(op))
  ELSE IF Validate(op, body) # NoResp
  THEN Reply([Start(op, body) EXCEPT !.h = sessions[body.sessionId], !.touched = TRUE],
             Validate(op, body))
  ELSE [Start(op, body) EXCEPT !.h = sessions[body.sessionId],
                               !.pc = FirstPc(op), !.idx = 1,
                               !.ready = Shows(op, body, page[sessions[body.sessionId]])]

\* (a lookup that takes the first browser, whatever the id)
StagePrefixFirstBrowser(op, body) ==
  IF Validate(op, body) # NoResp
  THEN Reply(Start(op, body), Validate(op, body))
  ELSE IF ~SessionExists(body.sessionId)
  THEN Reply(Start(op, body), SessionNotFound(op))
  ELSE [Start(op, body) EXCEPT !.h = 1,
                               !.pc = FirstPc(op), !.idx = 1,
                               !.ready = Shows(op, body, page[1])]

\* The handler up to its first await: the body's checks, then the lookup.
StagePrefix(op, body) ==
  IF Validate(op, body) # NoResp
  THEN Reply(Start(op, body), Validate(op, body))
  ELSE IF ~SessionExists(body.sessionId)
  THEN Reply(Start(op, body), SessionNotFound(op))
  ELSE [Start(op, body) EXCEPT !.h = sessions[body.sessionId],
                               !.pc = FirstPc(op), !.idx = 1,
                               !.ready = Shows(op, body, page[sessions[body.sessionId]])]

\* An earlier request of the same operation for the session ended in the
\* handler's catch branch (kept for the claims).
FailedBefore(op, sid) ==
  \E r \in Reqs : /\ req[r].op = op /\ req[r].sid = sid /\ req[r].pc = "done"
                  /\ req[r].h # 0 /\ req[r].resp.status = 500

StageArrive(r, op, body) ==
  /\ Received(r, op, body)
  /\ req' = [req EXCEPT ![r] = [StagePrefix(op, body) EXCEPT
                                  !.again = FailedBefore(op, body.sessionId),
                                  !.prior = SelectionsBefore(op, body.sessionId)]]
  /\ UNCHANGED <<sessions, launched, page, files, call>>

(***************************************************************************)
(* verify-code, verify-sms, verify-phone, update-phone: wait for the form, *)
(* clear and fill it, submit, then read the page.                          *)
(***************************************************************************)
\* page.waitForSelector of the handler's fields
FormPresent(op, p) == IF op \in CodeOps THEN p.pin ELSE p.form

\* The handler in slot r moves to q; nothing else changes.
Step(r, q) ==
  /\ req' = [req EXCEPT ![r] = q]
  /\ UNCHANGED <<sessions, launched, page, files, arrivals, call>>

SubmitWait(r) ==
  LET q == req[r] IN
  /\ q.op \in CodeOps \cup PhoneOps /\ q.pc = "wait"
  /\ Step(r, IF FormPresent(q.op, page[q.h])
             THEN [q EXCEPT !.touched = TRUE, !.pc = "fill"]
             ELSE Reply([q EXCEPT !.touched = TRUE], Failure(q.op)))

\* (page.select,) page.evaluate resetting the value, page.type
SubmitFill(r) ==
  LET q == req[r] IN
  /\ q.op \in CodeOps \cup PhoneOps /\ q.pc = "fill"
  /\ Step(r, [q EXCEPT !.mutated = TRUE, !.pc = "submit"])

\* Promise.all([waitForNavigation.catch, click]) and delay(2000)
SubmitClick(r) ==
  LET q == req[r] IN
  /\ q.op \in CodeOps \cup PhoneOps /\ q.pc = "submit"
  /\ Step(r, [q EXCEPT !.pc = "check"])

\* errorBanner && !errorBanner.classList.contains("hidden__imp")
HasError(p) == p.banner # "none" /\ p.banner # "hidden"

DeadEnd(url) == Includes(url, "/login-challenge-submit")

\* (the address looked at before the banner)
CodeOutcomeAddressFirst(hasError, url) ==
  IF DeadEnd(url) THEN Send(200, "lastcve")
  ELSE IF hasError THEN Send(400, "Invalid verification code. Please try again.")
  ELSE Send(200, "1")

\* (the banner not looked at)
CodeOutcomeIgnoresError(hasError, url) ==
  IF DeadEnd(url) THEN Send(200, "lastcve") ELSE Send(200, "1")

\* verify-code and verify-sms after the submission
CodeOutcome(hasError, url) ==
  IF hasError THEN Send(400, "Invalid verification code. Please try again.")
  ELSE IF DeadEnd(url) THEN Send(200, "lastcve")
  ELSE Send(200, "1")

\* const hasError = await page.evaluate(...): the banner as the page shows it
\* when the evaluation runs.  (In the error branch the handler does not read
\* the address; url records it there for the claims only.)
CodeCheck(r) ==
  LET q == req[r]
      p == page[q.h] IN
  /\ q.op \in CodeOps /\ q.pc = "check"
  /\ Step(r, IF HasError(p)
             THEN Reply([q EXCEPT !.err = TRUE, !.url = p.url], CodeOutcome(TRUE, p.url))
             ELSE [q EXCEPT !.err = FALSE, !.pc = "url"])

\* const currentUrl = await page.url(): the address when the result is back
CodeUrl(r) ==
  LET q == req[r]
      p == page[q.h] IN
  /\ q.op \in CodeOps /\ q.pc = "url"
  /\ Step(r, Reply([q EXCEPT !.url = p.url], CodeOutcome(q.err, p.url)))

VerifyPhoneHeader == "Let's verify your phone number"
OtherHeader == "Enter the code we sent"
\* headerText && headerText.includes("verify your phone number")
AsksToVerifyPhone(header) == header # "" /\ header = VerifyPhoneHeader

PhoneCheck(r) ==
  LET q == req[r]
      p == page[q.h] IN
  /\ q.op \in PhoneOps /\ q.pc = "check"
  /\ Step(r, [q EXCEPT !.err = HasError(p),
                       !.pc = IF HasError(p) THEN "errmsg" ELSE "url"])

\* the text of .body__banner--error span[role="alert"], or the default message
ErrorMessage(p) == IF p.alert # "" THEN p.alert ELSE "Invalid phone number. Please try again."

PhoneErrMsg(r) ==
  LET q == req[r]
      p == page[q.h] IN
  /\ q.op \in PhoneOps /\ q.pc = "errmsg"
  /\ Step(r, Reply(q, IF q.op = "verifyPhone"
                      THEN Send(400, ErrorMessage(p))
                      ELSE Json(400, "error", ErrorMessage(p))))

PhoneUrl(r) ==
  LET q == req[r]
      p == page[q.h]
      q1 == [q EXCEPT !.url = p.url] IN
  /\ q.op \in PhoneOps /\ q.pc = "url"
  /\ Step(r, IF DeadEnd(p.url)
             THEN Reply(q1, IF q.op = "verifyPhone" THEN Send(200, "lastcve")
                            ELSE Json(200, "redirect", "lastcve"))
             ELSE IF q.op = "verifyPhone"
             THEN [q1 EXCEPT !.pc = "header"]
             ELSE Reply(q1, Json(200, "success", "true")))

PhoneHeader(r) ==
  LET q == req[r]
      p == page[q.h] IN
  /\ q.op = "verifyPhone" /\ q.pc = "header"
  /\ Step(r, Reply(q, IF AsksToVerifyPhone(p.header)
                      THEN Send(200, "Let's verify your phone number")
                      ELSE Send(200, "1")))

(***************************************************************************)
(* POST /api/linkedin/security-verification: the first frame with tiles    *)
(***************************************************************************)
NumFrames(p) == Len(p.tiles)

SecurityEvaluate(r) ==
  LET q == [req[r] EXCEPT !.touched = TRUE]
      p == page[q.h] IN
  /\ q.op = "security" /\ q.pc = "frame"
  /\ Step(r, IF p.tiles[q.idx] > 0
             THEN Reply(q, Json(200, "status", "success"))
             ELSE IF q.idx < NumFrames(p)
             THEN [q EXCEPT !.idx = q.idx + 1]
             ELSE Reply(q, Json(404, "error", "No puzzle tiles found")))

(***************************************************************************)
(* POST /api/linkedin/select-tile (app3.js)                                *)
(***************************************************************************)
\* tiles[selectedTile - 1] of a frame that shows n tiles
TileAt(n, t) == ~JsIsNaN(t) /\ 1 <= t.v /\ t.v <= n

\* the for loop's next iteration, or the response after the loop
NextFrame(q, p) ==
  IF q.idx < NumFrames(p)
  THEN [q EXCEPT !.idx = q.idx + 1, !.pc = "frame"]
  ELSE Reply(q, Json(404, "error", "No puzzle tiles found"))

\* (an evaluation that waits while another request works on the page)
TileEvaluateExclusive(r) ==
  LET q == [req[r] EXCEPT !.touched = TRUE]
      p == page[q.h] IN
  /\ q.op = "selectTile" /\ q.pc = "frame"
  /\ \A r2 \in Reqs \ {r} : ~(Awaiting(req[r2]) /\ req[r2].h = q.h /\ req[r2].touched)
  /\ Step(r, IF TileAt(p.tiles[q.idx], q.body.tileNumber)
             THEN [q EXCEPT !.mutated = TRUE, !.clicks = q.clicks + 1, !.pre = p.url,
                            !.pc = "baseline"]
             ELSE NextFrame(q, p))

\* frame.evaluate: the tile is clicked in the page when it is there
TileEvaluate(r) ==
  LET q == [req[r] EXCEPT !.touched = TRUE]
      p == page[q.h] IN
  /\ q.op = "selectTile" /\ q.pc = "frame"
  /\ Step(r, IF TileAt(p.tiles[q.idx], q.body.tileNumber)
             THEN [q EXCEPT !.mutated = TRUE, !.clicks = q.clicks + 1, !.pre = p.url,
                            !.pc = "baseline"]
             ELSE NextFrame(q, p))

\* const currentUrl = await page.url(), once the evaluation's result is back
TileBaseline(r) ==
  LET q == req[r] IN
  /\ q.op = "selectTile" /\ q.pc = "baseline"
  /\ Step(r, [q EXCEPT !.url = page[q.h].url, !.pc = "race"])

\* Promise.race of navigation, network idle and the 10 s timer: it resolves
\* (then delay(2000)) or, when a wait rejects first, the inner catch runs
TileRace(r) ==
  LET q == req[r] IN
  /\ q.op = "selectTile" /\ q.pc = "race"
  /\ \E rejected \in BOOLEAN :
       Step(r, [q EXCEPT !.pc = IF rejected THEN "caught" ELSE "compare"])

\* urlChanged = newUrl !== currentUrl
TileCompare(r) ==
  LET q == req[r]
      p == page[q.h] IN
  /\ q.op = "selectTile" /\ q.pc = "compare"
  /\ Step(r, IF p.url # q.url
             THEN IF DeadEnd(p.url)
                  THEN Reply([q EXCEPT !.changed = TRUE], Send(200, "lastcve"))
                  ELSE [q EXCEPT !.changed = TRUE, !.pc = "header"]
             ELSE NextFrame(q, p))

\* res.send(headerText); a rejected evaluation goes to the inner catch
TileHeader(r) ==
  LET q == req[r] IN
  /\ q.op = "selectTile" /\ q.pc = "header"
  /\ \E rejected \in BOOLEAN :
       Step(r, IF rejected THEN [q EXCEPT !.pc = "caught"]
               ELSE Reply(q, Send(200, page[q.h].header)))

\* the inner catch: finalUrl.includes("/login-challenge-submit")
TileCaught(r) ==
  LET q == req[r]
      p == page[q.h] IN
  /\ q.op = "selectTile" /\ q.pc = "caught"
  /\ Step(r, IF DeadEnd(p.url) THEN Reply(q, Send(200, "lastcve")) ELSE NextFrame(q, p))

(***************************************************************************)
(* findAndClickStartPuzzleButton over a frame tree.  A tree is a function  *)
(* from frame to [eval, kids]: what frame.evaluate gives there and         *)
(* frame.childFrames().  The result is whether a control was clicked and   *)
(* the frames evaluated, in order.                                         *)
(***************************************************************************)
RECURSIVE FindAndClick(_, _), FindInChildren(_, _, _)
RECURSIVE FindInChildrenBackwards(_, _, _)
RECURSIVE FindInChildrenExhaustive(_, _, _)

\* frame.evaluate(...): the value it resolves to, or a rejection
Evaluated(eval) == [value |-> eval = "match", rejected |-> eval = "throws"]

\* (no handler on the evaluation's promise)
CaughtNothing(outcome) == outcome

\* .catch((error) => false)
Caught(outcome) ==
  IF outcome.rejected THEN [value |-> FALSE, rejected |-> FALSE] ELSE outcome

\* const foundAndClicked = await frame.evaluate(...).catch(...)
FoundAndClicked(eval) == Caught(Evaluated(eval))

\* (a search that evaluates a frame again before it looks at the children)
FindAndClickRevisiting(T, f) ==
  LET foundAndClicked == FoundAndClicked(T[f].eval) IN
  IF foundAndClicked.rejected
  THEN [found |-> FALSE, threw |-> TRUE, log |-> <<f>>]
  ELSE IF foundAndClicked.value
  THEN [found |-> TRUE, threw |-> FALSE, log |-> <<f>>]
  ELSE FindInChildren(T, T[f].kids, <<f, f>>)

\* threw: the awaited promise rejected, and the rejection goes to the caller
FindAndClick(T, f) ==
  LET foundAndClicked == FoundAndClicked(T[f].eval) IN
  IF foundAndClicked.rejected
  THEN [found |-> FALSE, threw |-> TRUE, log |-> <<f>>]
  ELSE IF foundAndClicked.value
  THEN [found |-> TRUE, threw |-> FALSE, log |-> <<f>>]
  ELSE FindInChildren(T, T[f].kids, <<f>>)

\* (the child frames taken from the last to the first)
FindInChildrenBackwards(T, kids, log) ==
  IF kids = <<>> THEN [found |-> FALSE, threw |-> FALSE, log |-> log]
  ELSE LET res == FindAndClick(T, kids[Len(kids)]) IN
       IF res.threw \/ res.found
       THEN [found |-> res.found, threw |-> res.threw, log |-> log \o res.log]
       ELSE FindInChildrenBackwards(T, SubSeq(kids, 1, Len(kids) - 1), log \o res.log)

\* (a loop with no `if (found) return true`: every child is searched)
FindInChildrenExhaustive(T, kids, log) ==
  IF kids = <<>> THEN [found |-> FALSE, threw |-> FALSE, log |-> log]
  ELSE LET res == FindAndClick(T, Head(kids)) IN
       IF res.threw
       THEN [found |-> FALSE, threw |-> TRUE, log |-> log \o res.log]
       ELSE LET rest == FindInChildrenExhaustive(T, Tail(kids), log \o res.log) IN
            [found |-> res.found \/ rest.found, threw |-> rest.threw, log |-> rest.log]

\* for (let i = 0; i < childFrames.length; i++) ... if (found) return true
FindInChildren(T, kids, log) ==
  IF kids = <<>> THEN [found |-> FALSE, threw |-> FALSE, log |-> log]
  ELSE LET res == FindAndClick(T, Head(kids)) IN
       IF res.threw \/ res.found
       THEN [found |-> res.found, threw |-> res.threw, log |-> log \o res.log]
       ELSE FindInChildren(T, Tail(kids), log \o res.log)

\* page.mainFrame() and its descendants, for a page of the model
PageTree(p) ==
  [f \in 1..NumFrames(p) |->
     [eval |-> p.start[f],
      kids |-> IF f = 1 THEN [i \in 1..(NumFrames(p) - 1) |-> i + 1] ELSE <<>>]]

(***************************************************************************)
(* handleCaptchaChallenge, run by login after its response                 *)
(***************************************************************************)
\* (a handlePuzzleTiles that reports the tiles handled once it saved the piece)
HandlePuzzleTilesReporting(tilesExist, blobUrl) == tilesExist /\ blobUrl # 0

\* handlePuzzleTiles' return value: `return false` on every path
HandlePuzzleTiles(tilesExist, blobUrl) == FALSE

\* (a check that is content with any tile)
TilesExistAny(n) == n > 0

\* tiles.length === 6
TilesExist(n) == n = 6

\* The login handlers of app3.js ("login") and app2.js ("login2")
LoginOps == {"login", "login2"}

\* handleCaptchaChallenge has returned: app3.js's login, which answered before
\* it, returns; app2.js's login sends its result, "1"
CaptchaReturns(q) ==
  IF q.op = "login2" THEN Reply(q, Send(200, "1")) ELSE [q EXCEPT !.pc = "done"]

\* (an else branch that returns true only once two challenges are done)
NoButtonUnlessDone(challengeCount) ==
  IF challengeCount >= 2 THEN "true" ELSE "undefined"

\* handleCaptchaChallenge's else branch, taken when no button was found: the
\* count chooses the log line only, and the value returned is true
NoButton(challengeCount) ==
  IF challengeCount >= 2 THEN "true" ELSE "true"

\* delay(10000); delay(5000); the search from page.mainFrame()
LoginCaptcha(r) ==
  LET q == req[r]
      p == page[q.h]
      res == FindAndClick(PageTree(p), 1) IN
  /\ q.op \in LoginOps /\ q.pc = "captcha"
  /\ Step(r, IF res.threw
             THEN Reply([q EXCEPT !.broke = TRUE], Failure(q.op))
             ELSE IF res.found
             THEN [q EXCEPT !.pc = "tiles", !.idx = 1, !.searches = q.searches + 1]
             ELSE CaptchaReturns([q EXCEPT !.searches = q.searches + 1,
                                           !.ret = NoButton(q.count)]))

\* What follows handlePuzzleTiles in `for (const frame of allFrames)`: when
\* it reports the tiles handled, the address change is awaited and the count
\* increased; otherwise the next frame, or the return after the loop.
AfterTiles(q, p, tilesHandled, urlChanged) ==
  IF tilesHandled
  THEN IF urlChanged
       THEN IF q.count + 1 >= 2
            THEN CaptchaReturns([q EXCEPT !.count = q.count + 1])
            ELSE [q EXCEPT !.count = q.count + 1, !.pc = "captcha"]
       ELSE CaptchaReturns(q)
  ELSE IF q.idx < NumFrames(p) THEN [q EXCEPT !.idx = q.idx + 1, !.pc = "tiles"]
  ELSE CaptchaReturns(q)

\* handlePuzzleTiles' first evaluation, on the frame of this iteration:
\* tilesExist; without six tiles it returns false at once
LoginTiles(r) ==
  LET q == req[r]
      p == page[q.h]
      tilesExist == TilesExist(p.tiles[q.idx]) IN
  /\ q.op \in LoginOps /\ q.pc = "tiles"
  /\ \E urlChanged \in BOOLEAN :
       req' = [req EXCEPT ![r] =
         IF tilesExist THEN [q EXCEPT !.pc = "blob"]
         ELSE AfterTiles(q, p, HandlePuzzleTiles(tilesExist, 0), urlChanged)]
  /\ UNCHANGED <<sessions, launched, page, files, arrivals, call>>

\* handlePuzzleTiles' second evaluation: the blob reference of the first
\* tile, null when there is no tile or no blob; downloadPuzzlePiece saves it
LoginBlob(r) ==
  LET q == req[r]
      p == page[q.h]
      blobUrl == IF p.tiles[q.idx] > 0 THEN p.blob ELSE 0 IN
  /\ q.op \in LoginOps /\ q.pc = "blob"
  /\ files' = IF blobUrl # 0
               THEN [files EXCEPT ![DownloadPath(q.sid)] = blobUrl]
               ELSE files
  /\ \E urlChanged \in BOOLEAN :
       req' = [req EXCEPT ![r] =
         AfterTiles(q, p, HandlePuzzleTiles(TRUE, blobUrl), urlChanged)]
  /\ UNCHANGED <<sessions, launched, page, arrivals, call>>


(***************************************************************************)
(* POST /api/linkedin/login of app2.js: it waits for the navigation, looks *)
(* for the password error, and answers only when the puzzle handling has   *)
(* returned.                                                               *)
(***************************************************************************)
Login2Arrive(r, body) ==
  /\ Received(r, "login2", body)
  /\ \E sid \in Ids :
       /\ IF body.sessionId # Null THEN sid = body.sessionId
          ELSE IF body.email = "" THEN sid = CHOOSE u \in Ids : TRUE
          ELSE sid \in FreshIds
       /\ req' = [req EXCEPT ![r] = [LoginPrefix(body, sid) EXCEPT !.op = "login2"]]
  /\ UNCHANGED <<sessions, launched, page, files, call>>

\* puppeteer.launch() and browser.newPage()
Login2Launch(r) ==
  /\ req[r].op = "login2" /\ req[r].pc = "launch"
  /\ launched' = Append(launched, req[r].sid)
  /\ page' = Append(page, InitPage)
  /\ req' = [req EXCEPT ![r] = [req[r] EXCEPT !.h = Len(launched) + 1, !.touched = TRUE,
                                               !.pc = "submit"]]
  /\ UNCHANGED <<sessions, files, arrivals, call>>

\* goto, type, Promise.all([waitForNavigation, click]), then
\* const passwordError = await page.$("#error-for-password"): result "0" is
\* sent, or the handler goes on to delay(5000)
Login2Submit(r) ==
  LET q == [req[r] EXCEPT !.mutated = TRUE] IN
  /\ q.op = "login2" /\ q.pc = "submit"
  /\ \E passwordError \in BOOLEAN :
       Step(r, IF passwordError
               THEN Reply([q EXCEPT !.pwerr = TRUE], Send(200, "0"))
               ELSE [q EXCEPT !.pc = "register"])

\* sessions[sessionId] = { browser, page }, then handleCaptchaChallenge
Login2Register(r) ==
  /\ req[r].op = "login2" /\ req[r].pc = "register"
  /\ sessions' = [sessions EXCEPT ![req[r].sid] = req[r].h]
  /\ req' = [req EXCEPT ![r] = [req[r] EXCEPT !.pc = "captcha"]]
  /\ UNCHANGED <<launched, page, files, arrivals, call>>

(***************************************************************************)
(* POST /api/linkedin/select-tile of app2.js ("selectTile2").  Its body    *)
(* checks and lookup are those of app3.js; the handler sends a response    *)
(* only from its catch branch.                                             *)
(***************************************************************************)
SelectTile2Arrive(r, body) ==
  /\ Received(r, "selectTile2", body)
  /\ req' = [req EXCEPT ![r] = [StagePrefix("selectTile", body) EXCEPT !.op = "selectTile2"]]
  /\ UNCHANGED <<sessions, launched, page, files, call>>

\* the outer for loop's next iteration; after the last frame the handler
\* returns, having sent nothing
NextFrame2(q, p) ==
  IF q.idx < NumFrames(p)
  THEN [q EXCEPT !.idx = q.idx + 1, !.pc = "frame"]
  ELSE [q EXCEPT !.pc = "done"]

\* frame.evaluate: the tile is clicked in the page when it is there
Tile2Evaluate(r) ==
  LET q == [req[r] EXCEPT !.touched = TRUE]
      p == page[q.h] IN
  /\ q.op = "selectTile2" /\ q.pc = "frame"
  /\ Step(r, IF TileAt(p.tiles[q.idx], q.body.tileNumber)
             THEN [q EXCEPT !.mutated = TRUE, !.clicks = q.clicks + 1, !.pre = p.url,
                            !.pc = "alert"]
             ELSE NextFrame2(q, p))

\* The wait of 3 s and the search of every frame for the wrong-tile alert.
\* What the frames show then is the site's choice: no alert; an alert with no
\* "Try again" button; an alert with the button, which is clicked, and no
\* blob image on the page before or after the wait; or an alert with the
\* button and a blob image, where downloadPuzzlePiece(browser, ...) is
\* reached: `browser` is not defined in this handler, the call throws and
\* the catch branch answers.
Tile2Alert(r) ==
  LET q == req[r] IN
  /\ q.op = "selectTile2" /\ q.pc = "alert"
  /\ \E shown \in {"none", "alert", "retry", "retryBlob"} :
       Step(r, IF shown = "retryBlob"
               THEN Reply([q EXCEPT !.shown = shown], Failure("selectTile"))
               ELSE [q EXCEPT !.shown = shown, !.pc = "baseline"])

\* const currentUrl = await page.url()
Tile2Baseline(r) ==
  LET q == req[r] IN
  /\ q.op = "selectTile2" /\ q.pc = "baseline"
  /\ Step(r, [q EXCEPT !.url = page[q.h].url, !.pc = "race"])

\* Promise.race of the navigation (5 s) and the 10 s timer; when the
\* navigation wait rejects first, result = "0" and the loop goes on
Tile2Race(r) ==
  LET q == req[r] IN
  /\ q.op = "selectTile2" /\ q.pc = "race"
  /\ \E rejected \in BOOLEAN :
       Step(r, IF rejected THEN NextFrame2(q, page[q.h]) ELSE [q EXCEPT !.pc = "compare"])

\* urlChanged = newUrl !== currentUrl; result = headerText when it changed.
\* The result is kept in a local and never sent.
Tile2Compare(r) ==
  LET q == req[r]
      p == page[q.h] IN
  /\ q.op = "selectTile2" /\ q.pc = "compare"
  /\ Step(r, NextFrame2([q EXCEPT !.changed = (p.url # q.url)], p))

(***************************************************************************)
(* POST /api/linkedin/check-login-status                                   *)
(***************************************************************************)
StatusBodies == {[EmptyBody EXCEPT !.sessionId = s] : s \in SessionIds \cup {Null}}

\* An earlier poll for the session has answered "1" (kept for the claims).
ReportedSuccess(sid) ==
  \E r \in Reqs : /\ req[r].op = "status" /\ req[r].pc = "done"
                  /\ req[r].sid = sid /\ req[r].resp = Send(200, "1")

\* The handler up to its first await: "0" without a session id or a session
StatusPrefix(body) ==
  IF body.sessionId = Null THEN Reply(Start("status", body), Send(200, "0"))
  ELSE IF ~SessionExists(body.sessionId)
  THEN Reply(Start("status", body), Send(200, "0"))
  ELSE [Start("status", body) EXCEPT !.h = sessions[body.sessionId], !.pc = "url",
                                     !.seen = ReportedSuccess(body.sessionId)]

StatusArrive(r, body) ==
  /\ Received(r, "status", body)
  /\ req' = [req EXCEPT ![r] = StatusPrefix(body)]
  /\ UNCHANGED <<sessions, launched, page, files, call>>

\* const currentUrl = await page.url(); if (currentUrl.includes("feed"))
StatusUrl(r) ==
  LET q == [req[r] EXCEPT !.touched = TRUE]
      p == page[q.h] IN
  /\ q.op = "status" /\ q.pc = "url"
  /\ Step(r, IF Includes(p.url, "feed")
             THEN Reply([q EXCEPT !.url = p.url], Send(200, "1"))
             ELSE [q EXCEPT !.url = p.url, !.pc = "header"])

\* The header's text is the result when there is one, "0" otherwise.  When
\* the evaluation rejects with "Execution context was destroyed" the answer
\* is "1" (err records it); any other rejection goes to the catch branch.
StatusHeader(r) ==
  LET q == req[r]
      p == page[q.h] IN
  /\ q.op = "status" /\ q.pc = "header"
  /\ \E destroyed \in BOOLEAN :
       Step(r, IF destroyed
               THEN Reply([q EXCEPT !.err = TRUE], Send(200, "1"))
               ELSE Reply(q, Send(200, IF p.header # "" THEN p.header ELSE "0")))

(***************************************************************************)
(* GET /api/check-puzzle-image: answered in one step, from the file system *)
(***************************************************************************)
ImageCheck(r, id) ==
  LET body == [EmptyBody EXCEPT !.query = id]
      exists == files[ImagePath(id)] # 0 IN
  /\ Received(r, "image", body)
  /\ req' = [req EXCEPT ![r] =
       Reply(Start("image", body),
             Json(200, "exists", IF exists THEN "true" ELSE "false"))]
  /\ UNCHANGED <<sessions, launched, page, files, call>>

(***************************************************************************)
(* The remote site: the page of a browser changes to any of the pages in S. *)
(* Only a page some handler can still read is followed: the page of a      *)
(* registered browser, or of one a running handler holds (a login holds    *)
(* its browser from the launch on, and reads its page from the puzzle      *)
(* search on).                                                             *)
(***************************************************************************)
InUse(h) == \/ \E id \in Ids : sessions[id] = h
            \/ \E r \in Reqs : Awaiting(req[r]) /\ req[r].h = h /\ req[r].pc # "submit"

Remote(h, S) ==
  /\ InUse(h)
  /\ \E p \in S : p # page[h] /\ page' = [page EXCEPT ![h] = p]
  /\ UNCHANGED <<sessions, launched, req, files, arrivals, call>>

(***************************************************************************)
(* Request bodies and remote pages of the specifications                   *)
(***************************************************************************)
TileInputs == {Undefined, Num(0), Num(1), Num(6), Num(7), Str}
PhoneInputs == {<<>>, Digits(3), Digits(10)}

StageBodies(op) ==
  CASE op = "security" ->
         {[EmptyBody EXCEPT !.sessionId = s] : s \in SessionIds \cup {Null}}
    [] op = "selectTile" ->
         {[EmptyBody EXCEPT !.sessionId = s, !.tileNumber = t] :
            s \in SessionIds \cup {Null}, t \in TileInputs}
    [] op \in CodeOps ->
         {[EmptyBody EXCEPT !.sessionId = s, !.code = c] :
            s \in SessionIds \cup {Null}, c \in {"", "123456"}}
    [] op \in PhoneOps ->
         {[EmptyBody EXCEPT !.sessionId = s, !.phone = ph, !.countryCode = cc] :
            s \in SessionIds \cup {Null}, ph \in PhoneInputs, cc \in {"", "us"}}

\* a login that passes validation, for session "s1", and one without an email
GoodLogin == [EmptyBody EXCEPT !.sessionId = "s1", !.email = "user@example.com"]
AnonLogin == [EmptyBody EXCEPT !.sessionId = "s1"]

\* a page that shows every form and a tile set, and the page after them
ReadyPage == [InitPage EXCEPT !.url = ChallengeUrl, !.pin = TRUE, !.form = TRUE,
                              !.tiles = <<0, 6>>, !.start = <<"none", "match">>,
                              !.blob = 1]
RejectPage == [InitPage EXCEPT !.url = FeedUrl, !.banner = "visible"]
StagePages == {ReadyPage, RejectPage}


(***************************************************************************)
(* The phone page's script (handleSubmit): it trims the number and sends   *)
(* update-phone only when the number is present and long enough.           *)
(***************************************************************************)
MinPhoneLength == 10

RECURSIVE TrimStart(_), TrimEnd(_)
TrimStart(str) == IF str # <<>> /\ Head(str) = " " THEN TrimStart(Tail(str)) ELSE str
TrimEnd(str) ==
  IF str # <<>> /\ str[Len(str)] = " " THEN TrimEnd(SubSeq(str, 1, Len(str) - 1)) ELSE str
\* phoneInput.value.trim()
Trim(str) == TrimEnd(TrimStart(str))

\* neither `!phone` nor `phone.length < 10` shows an error
ClientAccepts(phone) == phone # <<>> /\ ~(Len(phone) < MinPhoneLength)

ClientInputs == {<<>>, <<" ">>, Digits(3), <<" ">> \o Digits(10) \o <<" ">>}

ClientSubmit(r, input, countryCode, sessionId) ==
  /\ ClientAccepts(Trim(input))
  /\ StageArrive(r, "updatePhone",
                 [EmptyBody EXCEPT !.sessionId = sessionId, !.phone = Trim(input),
                                   !.countryCode = countryCode])

Handles == 1..Len(page)

LoginNext(r) ==
  \/ LoginLaunch(r)
  \/ LoginSubmit(r)
  \/ LoginCaptcha(r)
  \/ LoginTiles(r)
  \/ LoginBlob(r)

StageNext(r) ==
  \/ SubmitWait(r)
  \/ SubmitFill(r)
  \/ SubmitClick(r)
  \/ CodeCheck(r)
  \/ CodeUrl(r)
  \/ PhoneCheck(r)
  \/ PhoneErrMsg(r)
  \/ PhoneUrl(r)
  \/ PhoneHeader(r)
  \/ SecurityEvaluate(r)
  \/ TileEvaluate(r)
  \/ TileBaseline(r)
  \/ TileRace(r)
  \/ TileCompare(r)
  \/ TileHeader(r)
  \/ TileCaught(r)

Next ==
  \/ \E r \in Reqs : \E body \in {GoodLogin, AnonLogin} : LoginArrive(r, body)
  \/ \E r \in Reqs : \E op \in StageOps : \E body \in StageBodies(op) : StageArrive(r, op, body)
  \/ \E r \in Reqs : \E input \in ClientInputs : \E cc \in {"", "us"} :
       \E sid \in SessionIds \cup {Null} : ClientSubmit(r, input, cc, sid)
  \/ \E r \in Reqs : LoginNext(r)
  \/ \E r \in Reqs : StageNext(r)
  \/ \E r \in Reqs : Throw(r)
  \/ \E h \in Handles : Remote(h, StagePages)

Init == Started /\ arrivals = MaxArrivals

Spec == Init /\ [][Next]_vars

(***************************************************************************)
(* SpecLogin: login requests only, with every body, racing each other.     *)
(***************************************************************************)
NextLogin ==
  \/ \E r \in Reqs : \E body \in LoginBodies : LoginArrive(r, body)
  \/ \E r \in Reqs : LoginNext(r)
  \/ \E r \in Reqs : Throw(r)
  \/ \E h \in Handles : Remote(h, StagePages)

InitLogin == Started /\ arrivals = MaxLogins

SpecLogin == InitLogin /\ [][NextLogin]_vars


(***************************************************************************)
(* SpecCode: the code submissions for one session, against every page a    *)
(* code step can meet.  It starts where a login for "s1" has registered    *)
(* its browser and its handler has returned.                               *)
(***************************************************************************)
CodeBodies == {[EmptyBody EXCEPT !.sessionId = "s1", !.code = "123456"]}

PuzzlePage == [InitPage EXCEPT !.url = ChallengeUrl, !.tiles = <<0, 6>>,
                               !.start = <<"none", "match">>, !.blob = 1]
CodePages ==
  {PuzzlePage} \cup
  {[InitPage EXCEPT !.url = u, !.banner = b, !.pin = TRUE] :
     u \in {ChallengeUrl, DeadEndUrl}, b \in {"none", "hidden", "visible"}}

NextCode ==
  \/ \E r \in Reqs : \E op \in CodeOps : \E body \in CodeBodies : StageArrive(r, op, body)
  \/ \E r \in Reqs : SubmitWait(r)
  \/ \E r \in Reqs : SubmitFill(r)
  \/ \E r \in Reqs : SubmitClick(r)
  \/ \E r \in Reqs : CodeCheck(r)
  \/ \E r \in Reqs : CodeUrl(r)
  \/ \E r \in Reqs : Throw(r)
  \/ \E h \in Handles : Remote(h, CodePages)

\* sessions[sessionId] = { browser, page } of a login that ran to its end
LoggedIn ==
  /\ sessions = [id \in Ids |-> IF id = "s1" THEN 1 ELSE NoSession]
  /\ launched = <<"s1">>
  /\ page = <<PuzzlePage>>
  /\ req = [r \in Reqs |-> Idle]
  /\ files = [f \in Paths |-> 0]
  /\ call = NoCall

InitCode == LoggedIn /\ arrivals = MaxCodes

SpecCode == InitCode /\ [][NextCode]_vars

(***************************************************************************)
(* SpecApp2: the login and select-tile handlers of app2.js.                *)
(***************************************************************************)
Tile2Bodies ==
  {[EmptyBody EXCEPT !.sessionId = s, !.tileNumber = t] :
     s \in {"s1", Null}, t \in {Num(0), Num(1)}}

Login2Next(r) ==
  \/ Login2Launch(r)
  \/ Login2Submit(r)
  \/ Login2Register(r)
  \/ LoginCaptcha(r)
  \/ LoginTiles(r)
  \/ LoginBlob(r)

Tile2Next(r) ==
  \/ Tile2Evaluate(r)
  \/ Tile2Alert(r)
  \/ Tile2Baseline(r)
  \/ Tile2Race(r)
  \/ Tile2Compare(r)

NextApp2 ==
  \/ \E r \in Reqs : \E body \in {GoodLogin, AnonLogin} : Login2Arrive(r, body)
  \/ \E r \in Reqs : \E body \in Tile2Bodies : SelectTile2Arrive(r, body)
  \/ \E r \in Reqs : Login2Next(r)
  \/ \E r \in Reqs : Tile2Next(r)
  \/ \E r \in Reqs : Throw(r)
  \/ \E h \in Handles : Remote(h, StagePages)

InitApp2 == Started /\ arrivals = MaxArrivals

SpecApp2 == InitApp2 /\ [][NextApp2]_vars

(***************************************************************************)
(* SpecFrames: findAndClickStartPuzzleButton on its own, called on the     *)
(* root of every frame tree of up to MaxFrames frames.  Frame 1 is the     *)
(* root; the parent of a frame has a smaller number, and childFrames()     *)
(* lists a frame's children by number.                                     *)
(***************************************************************************)
RECURSIVE Ascending(_)
Ascending(S) ==
  IF S = {} THEN <<>>
  ELSE LET m == CHOOSE x \in S : \A y \in S : x <= y IN <<m>> \o Ascending(S \ {m})

Evals == {"match", "none", "throws"}

\* the tree of n frames with parents par and evaluation results ev
TreeOf(n, par, ev) ==
  [f \in 1..n |-> [eval |-> ev[f], kids |-> Ascending({k \in 2..n : par[k] = f})]]

Trees ==
  UNION {{TreeOf(n, par, ev) :
            par \in {pp \in [2..n -> 1..n] : \A k \in 2..n : pp[k] < k},
            ev \in [1..n -> Evals]} : n \in 1..MaxFrames}

\* const buttonFound = await findAndClickStartPuzzleButton(page.mainFrame(), ...)
FindStart ==
  LET res == FindAndClick(call.tree, 1) IN
  /\ call.state = "called"
  /\ call' = [call EXCEPT !.state = "returned", !.found = res.found,
                          !.threw = res.threw, !.log = res.log]
  /\ UNCHANGED <<sessions, launched, page, req, files, arrivals>>

NextFrames == FindStart

InitFrames ==
  /\ sessions = [id \in Ids |-> NoSession]
  /\ launched = <<>>
  /\ page = <<>>
  /\ req = [r \in Reqs |-> Idle]
  /\ files = [f \in Paths |-> 0]
  /\ arrivals = 0
  /\ \E T \in Trees : call = [NoCall EXCEPT !.tree = T, !.state = "called"]

SpecFrames == InitFrames /\ [][NextFrames]_vars

\* Every awaited evaluation settles, so a search that was called goes on.
SpecFramesLive == SpecFrames /\ WF_vars(FindStart)

(***************************************************************************)
(* SpecStatus: status polls for a session that is logged in, and for ids   *)
(* that are not registered.                                                *)
(***************************************************************************)
FeedPage == [InitPage EXCEPT !.url = FeedUrl]
CodePage == [InitPage EXCEPT !.url = ChallengeUrl, !.pin = TRUE, !.header = OtherHeader]
StatusPages == {PuzzlePage, CodePage, FeedPage}

NextStatus ==
  \/ \E r \in Reqs : \E body \in StatusBodies : StatusArrive(r, body)
  \/ \E r \in Reqs : StatusUrl(r)
  \/ \E r \in Reqs : StatusHeader(r)
  \/ \E r \in Reqs : Throw(r)
  \/ \E h \in Handles : Remote(h, StatusPages)

InitStatus == LoggedIn /\ arrivals = MaxArrivals

SpecStatus == InitStatus /\ [][NextStatus]_vars

(***************************************************************************)
(* SpecImage: logins whose puzzle handling publishes the puzzle piece, and *)
(* requests that ask whether a piece exists.                               *)
(***************************************************************************)
ImageLogins == {[GoodLogin EXCEPT !.sessionId = sid] : sid \in SessionIds}

ShortPage == [PuzzlePage EXCEPT !.tiles = <<3, 3>>]
ImagePages == {PuzzlePage, ShortPage}

NextImage ==
  \/ \E r \in Reqs : \E body \in ImageLogins : LoginArrive(r, body)
  \/ \E r \in Reqs : LoginNext(r)
  \/ \E r \in Reqs : \E id \in QueryIds : ImageCheck(r, id)
  \/ \E h \in Handles : Remote(h, ImagePages)

InitImage == Started /\ arrivals = MaxArrivals

SpecImage == InitImage /\ [][NextImage]_vars

(***************************************************************************)
(* SpecHandles: logins for either id together with verify-code requests,   *)
(* so that requests for two sessions are under way at once.                *)
(***************************************************************************)
HandleCodes == {[EmptyBody EXCEPT !.sessionId = sid, !.code = "123456"] : sid \in SessionIds}

NextHandles ==
  \/ \E r \in Reqs : \E body \in ImageLogins : LoginArrive(r, body)
  \/ \E r \in Reqs : \E body \in HandleCodes : StageArrive(r, "verifyCode", body)
  \/ \E r \in Reqs : LoginNext(r)
  \/ \E r \in Reqs : SubmitWait(r)
  \/ \E r \in Reqs : SubmitFill(r)
  \/ \E r \in Reqs : SubmitClick(r)
  \/ \E r \in Reqs : CodeCheck(r)
  \/ \E r \in Reqs : CodeUrl(r)
  \/ \E r \in Reqs : Throw(r)
  \/ \E h \in Handles : Remote(h, {ReadyPage})

InitHandles == Started /\ arrivals = MaxCodes

SpecHandles == InitHandles /\ [][NextHandles]_vars

(***************************************************************************)
(* SpecTile: select-tile requests of app3.js for a registered session      *)
(* whose page shows tiles in one frame or in two, or has moved on.         *)
(***************************************************************************)
TileBodies == {[EmptyBody EXCEPT !.sessionId = "s1", !.tileNumber = t] : t \in {Num(1)}}

TwinPage == [PuzzlePage EXCEPT !.tiles = <<6, 6>>]
DeadEndPage == [InitPage EXCEPT !.url = DeadEndUrl]
TilePages == {PuzzlePage, TwinPage, DeadEndPage, FeedPage}

NextTile ==
  \/ \E r \in Reqs : \E body \in TileBodies : StageArrive(r, "selectTile", body)
  \/ \E r \in Reqs : TileEvaluate(r)
  \/ \E r \in Reqs : TileBaseline(r)
  \/ \E r \in Reqs : TileRace(r)
  \/ \E r \in Reqs : TileCompare(r)
  \/ \E r \in Reqs : TileHeader(r)
  \/ \E r \in Reqs : TileCaught(r)
  \/ \E r \in Reqs : Throw(r)
  \/ \E h \in Handles : Remote(h, TilePages)

InitTile == LoggedIn /\ arrivals = MaxArrivals

SpecTile == InitTile /\ [][NextTile]_vars

(***************************************************************************)
(* SpecRetry: tile selection after tile selection for one session whose    *)
(* page keeps showing the tiles.                                           *)
(***************************************************************************)
NextRetry ==
  \/ \E r \in Reqs : \E body \in TileBodies : StageArrive(r, "selectTile", body)
  \/ \E r \in Reqs : TileEvaluate(r)
  \/ \E r \in Reqs : TileBaseline(r)
  \/ \E r \in Reqs : TileRace(r)
  \/ \E r \in Reqs : TileCompare(r)
  \/ \E r \in Reqs : TileHeader(r)
  \/ \E r \in Reqs : TileCaught(r)
  \/ \E r \in Reqs : Throw(r)
  \/ \E h \in Handles : Remote(h, {PuzzlePage, TwinPage, FeedPage})

InitRetry == LoggedIn /\ arrivals = MaxCodes

SpecRetry == InitRetry /\ [][NextRetry]_vars

(***************************************************************************)
(* Claims                                                                  *)
(***************************************************************************)
\* In the step, a request for `op` arrives in slot r.
Arrives(r, op) ==
  /\ Free(r)
  /\ arrivals' = arrivals - 1
  /\ req'[r] # req[r]
  /\ req'[r].op = op

\* The browsers launched for id that are registered or still held by the
\* login handler that launched them.
LiveFor(id) ==
  {h \in Handles :
     /\ launched[h] = id
     /\ \/ sessions[id] = h
        \/ \E r \in Reqs : req[r].op = "login" /\ Awaiting(req[r]) /\ req[r].h = h}

\* C1: in every reachable state, also under interleaved login requests with
\* the same session id, at most one browser handle exists for a session id.
C1_OneHandlePerSession == \A id \in Ids : Cardinality(LiveFor(id)) <= 1

AlreadyExists == Send(400, "Session already exists")

\* C2 as stated: every login request whose session id is a key of the registry
\* is answered "Session already exists", launches no browser and leaves the
\* registry as it was.
C2_ExistingIdAnswered ==
  [][\A r \in Reqs :
       (Arrives(r, "login") /\ req'[r].body.sessionId # Null
          /\ sessions[req'[r].body.sessionId] # NoSession)
       => /\ req'[r].resp = AlreadyExists
          /\ launched' = launched /\ sessions' = sessions]_vars

\* C2 amended: a login request that carries an email and whose session id is
\* a key of the registry is answered "Session already exists" at once; with or
\* without an email it launches no browser, makes no call on a browser and
\* leaves the registry and every page as they were.
C2_ExistingIdRejected ==
  [][\A r \in Reqs :
       (Arrives(r, "login") /\ req'[r].body.sessionId # Null
          /\ sessions[req'[r].body.sessionId] # NoSession)
       => /\ req'[r].body.email # "" => req'[r].resp = AlreadyExists
          /\ req'[r].body.email = "" => req'[r].resp = Send(400, "Email is required")
          /\ req'[r].pc = "done" /\ ~req'[r].touched /\ req'[r].h = 0
          /\ launched' = launched /\ sessions' = sessions /\ page' = page]_vars

\* a login for a registered id has been turned away
C2_Witness ==
  \E r \in Reqs : /\ req[r].op = "login" /\ req[r].resp = AlreadyExists
                  /\ sessions[req[r].sid] # NoSession

(***************************************************************************)
(* select-tile's tile number                                               *)
(***************************************************************************)
\* the value names one of the tiles 1..6
InRange(t) == t.t \in {"number", "numstr"} /\ t.v \in 1..6

\* C3: a select-tile request whose tile number is missing or is not one of
\* 1..6 is rejected (a 400 answer) as it arrives, and has made no call on a
\* browser, page or frame.
C3_BadTileRejected ==
  \A r \in Reqs :
    (req[r].op = "selectTile" /\ ~InRange(req[r].body.tileNumber))
    => /\ req[r].pc = "done" /\ ~req[r].touched /\ req[r].h = 0
       /\ req[r].resp.status = 400

(***************************************************************************)
(* A session id that is not in the registry                                *)
(***************************************************************************)
\* In the step, a stage request arrives in slot r with an id that is given
\* and is not a key of the registry.
UnknownIdArrives(r) ==
  /\ \E op \in StageOps : Arrives(r, op)
  /\ req'[r].body.sessionId # Null
  /\ sessions[req'[r].body.sessionId] = NoSession

FieldErrors ==
  {"Valid tile number (1-6) is required", "Verification code is required",
   "Phone number is required", "Country code is required"}

EarlyMessages ==
  FieldErrors \cup {"Email is required", "Session ID is required", "Session not found"}

\* C5: a request answered with a validation failure or with "Session not
\* found" has launched no browser and made no call on a page or frame.
C5_EarlyOutcomesTouchNothing ==
  \A r \in Reqs :
    (req[r].resp.status = 400 /\ req[r].resp.body \in EarlyMessages)
    => ~req[r].touched /\ ~req[r].mutated /\ req[r].h = 0

\* a code request without a code, for a session that is registered, was
\* turned away
C5_Witness ==
  \E r \in Reqs :
    /\ req[r].op \in CodeOps /\ req[r].sid # Null /\ sessions[req[r].sid] # NoSession
    /\ req[r].resp = Json(400, "error", "Verification code is required")

(***************************************************************************)
(* Phone numbers                                                           *)
(***************************************************************************)
\* C6: a verify-phone or update-phone request whose phone number is shorter
\* than the minimum length is rejected with a validation outcome as it
\* arrives and makes no call on the session's page.
C6_ShortPhoneRejected ==
  \A r \in Reqs :
    (req[r].op \in PhoneOps /\ Len(req[r].body.phone) < MinPhoneLength)
    => req[r].pc = "done" /\ req[r].resp.status = 400 /\ ~req[r].touched

(***************************************************************************)
(* Stages                                                                  *)
(***************************************************************************)
\* an answer that refuses the request (4xx), as opposed to a failure (500)
Refusal(resp) == resp.status \in 400..499

\* C7: a tile-selection or code-submission request for a registered session
\* whose page did not show the tiles or the code form when the request
\* arrived ends in a refusal (unless the browser itself broke), having made
\* no click, type or value reset on the page.
C7_NotApplicableRefused ==
  \A r \in Reqs :
    (/\ req[r].op \in CodeOps \cup {"selectTile"}
     /\ req[r].h # 0 /\ ~req[r].ready /\ ~req[r].broke)
    => /\ ~req[r].mutated
       /\ req[r].pc = "done" => Refusal(req[r].resp)

\* The select-tile handlers that detected an address change on browser h.
ChangesSeen(h) ==
  {r \in Reqs : req[r].op = "selectTile" /\ req[r].h = h /\ req[r].changed}

\* C8: the count of completed puzzle cycles kept for a session (by the login
\* handler that drives its puzzle) has gone up once for each tile selection
\* that was followed by a detected address change.
C8_CountsAddressChanges ==
  \A r \in Reqs :
    (req[r].op = "login" /\ req[r].h # 0)
    => req[r].count = Cardinality(ChangesSeen(req[r].h))

(***************************************************************************)
(* verify-code and verify-sms                                              *)
(***************************************************************************)
InvalidCode == Send(400, "Invalid verification code. Please try again.")

\* C9: when the handler finds the error indicator visible after submitting
\* the code, it answers with the invalid-code outcome and the registry and
\* the browsers stay as they were; and a code request arriving for a session
\* for which a code was rejected is accepted: it goes on to the page of the
\* same handle.
C9_InvalidCodeRetryable ==
  [][\A r \in Reqs :
       /\ (req[r].op \in CodeOps /\ req[r].pc = "check" /\ req'[r].err)
          => /\ req'[r].pc = "done" /\ req'[r].resp = InvalidCode
             /\ sessions' = sessions /\ launched' = launched
       /\ \A r2 \in Reqs :
            (/\ req[r2].op \in CodeOps /\ req[r2].pc = "done" /\ req[r2].err
             /\ \E op \in CodeOps : Arrives(r, op)
             /\ req'[r].body.code # "" /\ req'[r].sid = req[r2].sid)
            => req'[r].pc = "wait" /\ req'[r].h = req[r2].h]_vars

\* a code was rejected for a session, and another code request for the same
\* session has been let through to the same page and has typed its code
C9_Witness ==
  \E r, r2 \in Reqs :
    /\ r # r2
    /\ req[r2].op = "verifyCode" /\ req[r2].pc = "done" /\ req[r2].err
    /\ req[r2].resp = InvalidCode
    /\ req[r].op = "verifyCode" /\ req[r].sid = req[r2].sid /\ req[r].h = req[r2].h
    /\ sessions[req[r].sid] = req[r].h
    /\ req[r].pc = "submit" /\ req[r].mutated

\* C10: a code request that ran to its answer without a failure answers by
\* what the page showed after the submission: the invalid-code outcome when
\* the error indicator was visible, whatever the address; otherwise "lastcve"
\* when the address held "/login-challenge-submit"; otherwise "1".
C10_OutcomeByPage ==
  \A r \in Reqs :
    (req[r].op \in CodeOps /\ req[r].pc = "done" /\ req[r].h # 0
       /\ req[r].resp.status # 500)
    => req[r].resp =
         IF req[r].err THEN InvalidCode
         ELSE IF req[r].url = DeadEndUrl THEN Send(200, "lastcve")
         ELSE Send(200, "1")

\* the error indicator was visible on the dead-end address, and the answer
\* was the invalid-code outcome
C10_Witness ==
  \E r \in Reqs :
    /\ req[r].op \in CodeOps /\ req[r].pc = "done"
    /\ req[r].err /\ req[r].url = DeadEndUrl /\ req[r].resp = InvalidCode

(***************************************************************************)
(* Login and the password error                                           *)
(***************************************************************************)
\* C11: a login attempt after whose credential submission the page showed the
\* password error has answered "0" and returned, is not in the registry, and
\* has never started the puzzle search.
C11_PasswordErrorEndsLogin ==
  \A r \in Reqs :
    (req[r].op \in LoginOps /\ req[r].pwerr)
    => /\ req[r].pc = "done" /\ req[r].resp = Send(200, "0")
       /\ sessions[req[r].sid] # req[r].h
       /\ req[r].searches = 0

(***************************************************************************)
(* The frame search                                                        *)
(***************************************************************************)
RECURSIVE PreOrder(_, _), PreOrderOfAll(_, _)
\* the frames of the subtree of f: f, then the subtree of each child in order
PreOrder(T, f) == <<f>> \o PreOrderOfAll(T, T[f].kids)
PreOrderOfAll(T, kids) ==
  IF kids = <<>> THEN <<>> ELSE PreOrder(T, Head(kids)) \o PreOrderOfAll(T, Tail(kids))

\* the positions in the pre-order of the frames that satisfy the predicate
Matching(T) ==
  {i \in 1..Len(PreOrder(T, 1)) : T[PreOrder(T, 1)[i]].eval = "match"}

\* the frames up to the first one that satisfies it, or all of them
Visited(T) ==
  IF Matching(T) = {} THEN PreOrder(T, 1)
  ELSE SubSeq(PreOrder(T, 1), 1, CHOOSE i \in Matching(T) : \A j \in Matching(T) : i <= j)

\* C12: for every frame tree the search returns true exactly when some frame
\* satisfies the start-control predicate; the frames it evaluates are those
\* of the depth-first pre-order up to the first satisfying frame, which is
\* the one it clicks in; and all of them when none satisfies it.
C12_FirstInPreOrder ==
  call.state = "returned"
  => /\ call.found <=> Matching(call.tree) # {}
     /\ call.log = Visited(call.tree)

\* the frame clicked in has a larger number than another satisfying frame,
\* which comes later in the pre-order
C12_Witness ==
  /\ call.state = "returned" /\ call.found
  /\ \E f \in DOMAIN call.tree :
       f < call.log[Len(call.log)] /\ call.tree[f].eval = "match"

\* C13: when the evaluation rejects on some frame of the tree, the search
\* still returns a value to its caller, and every such frame it reached
\* counted as a non-match: the search went on to the frame's children and
\* later siblings, up to the first satisfying frame or the end of the tree.
C13_RejectionIsNoMatch ==
  (call.state = "returned" /\ \E f \in DOMAIN call.tree : call.tree[f].eval = "throws")
  => /\ ~call.threw
     /\ call.found <=> Matching(call.tree) # {}
     /\ \A i \in 1..Len(Visited(call.tree)) :
          i <= Len(call.log) /\ call.log[i] = Visited(call.tree)[i]
     /\ Len(call.log) = Len(Visited(call.tree))

\* the evaluation rejected on a frame with a child; the child was evaluated
\* next, and the control was then found in a later sibling of the frame
C13_Witness ==
  /\ call.state = "returned" /\ call.found /\ ~call.threw
  /\ \E i \in 1..Len(call.log) : \E g \in DOMAIN call.tree :
       LET f == call.log[i]
           last == call.log[Len(call.log)] IN
       /\ call.tree[f].eval = "throws" /\ call.tree[f].kids # <<>>
       /\ i + 1 < Len(call.log) /\ call.log[i + 1] = call.tree[f].kids[1]
       /\ \E a, b \in 1..Len(call.tree[g].kids) :
            a < b /\ call.tree[g].kids[a] = f /\ call.tree[g].kids[b] = last

(***************************************************************************)
(* Status polls                                                            *)
(***************************************************************************)
\* In the step, the status poll in slot r moves.
StatusStep(r) == req'[r].op = "status" /\ req'[r] # req[r]

\* The poll q has answered.
Polled(q) == q.op = "status" /\ q.pc = "done"

\* C14 as stated: a status poll always answers 200; it answers "0" for a
\* missing or unregistered id and for any failure while reading the page;
\* and it leaves the registry as it was.
C14_PollNeverFails ==
  [][\A r \in Reqs :
       StatusStep(r)
       => /\ sessions' = sessions /\ launched' = launched
          /\ Polled(req'[r])
               => /\ req'[r].resp.status = 200
                  /\ (req'[r].h = 0 \/ req'[r].broke \/ req'[r].err)
                       => req'[r].resp = Send(200, "0")]_vars

\* C14 amended: a status poll always answers 200 with a text; it answers "0"
\* for a missing or unregistered id and when a read of the page fails, except
\* that it answers "1" when the header's evaluation fails with "Execution
\* context was destroyed"; and it leaves the registry and the browsers as
\* they were.
C14_PollAnswersNeutral ==
  [][\A r \in Reqs :
       StatusStep(r)
       => /\ sessions' = sessions /\ launched' = launched
          /\ Polled(req'[r])
               => /\ req'[r].resp.status = 200 /\ req'[r].resp.kind = "text"
                  /\ (req'[r].h = 0 \/ req'[r].broke) => req'[r].resp = Send(200, "0")
                  /\ req'[r].err => req'[r].resp = Send(200, "1")]_vars

\* a poll for a registered session failed while it read the page, and
\* answered "0"
C14_Witness ==
  \E r \in Reqs : /\ Polled(req[r]) /\ req[r].broke /\ req[r].h # 0
                  /\ sessions[req[r].sid] = req[r].h
                  /\ req[r].resp = Send(200, "0")

\* C15: a status poll that arrives after a poll for the same session has
\* reported success reports success too.
C15_SuccessIsTerminal ==
  \A r \in Reqs :
    (Polled(req[r]) /\ req[r].seen) => req[r].resp = Send(200, "1")

(***************************************************************************)
(* Puzzle pieces                                                           *)
(***************************************************************************)
\* A piece has been published under the id that is asked for.
PublishedUnder(id) ==
  \E sid \in Ids : IdText(sid) = id /\ files[DownloadPath(sid)] # 0

\* C16: a file changes only when a puzzle piece is published for some id, and
\* then it is the file of that id and of no other id; and check-puzzle-image
\* answers true for an id only if a piece was published under that same id.
C16_PiecesKeyedById ==
  [][/\ \A f \in Paths :
          files'[f] # files[f]
          => \E r \in Reqs :
               /\ req[r].op \in LoginOps /\ req[r].pc = "blob"
               /\ f = DownloadPath(req[r].sid)
               /\ \A sid \in Ids \ {req[r].sid} : f # DownloadPath(sid)
     /\ \A r \in Reqs :
          (req'[r].op = "image" /\ req'[r] # req[r] /\ req'[r].resp.body = "true")
          => PublishedUnder(req'[r].body.query)]_vars

(***************************************************************************)
(* Responses                                                               *)
(***************************************************************************)
\* C17: no handler ends without sending an outcome: a request whose handler
\* has returned has been sent a response.
C17_EndedMeansAnswered ==
  \A r \in Reqs : req[r].pc = "done" => req[r].sends >= 1

\* C18: no handler sends a second response for its request.
C18_AtMostOneResponse ==
  \A r \in Reqs : req[r].sends <= 1

\* C19: once an operation has sent its response, nothing it started is still
\* working on the session's browser.
C19_NoWorkAfterResponse ==
  \A r \in Reqs : req[r].sends > 0 => ~Awaiting(req[r])

(***************************************************************************)
(* Handles                                                                 *)
(***************************************************************************)
\* The registered ids.
Registered == {id \in Ids : sessions[id] # NoSession}

\* The requests that move in the step.
Moving == {r \in Reqs : req'[r] # req[r]}

\* C20: two distinct registered ids never hold the same browser; the browser
\* a handler works on was launched for the handler's own session id and is
\* stored under no other id; a stage operation takes the browser stored
\* under its id when it arrives and keeps it; and a handler's step changes no
\* page but the page of its own browser.
C20_HandlesNeverShared ==
  [][/\ \A id1, id2 \in Registered : id1 # id2 => sessions[id1] # sessions[id2]
     /\ \A r \in Moving :
          req'[r].h # 0
          => /\ launched'[req'[r].h] = req'[r].sid
             /\ \A id \in Ids : sessions'[id] = req'[r].h => id = req'[r].sid
             /\ (req'[r].op \in StageOps /\ ~Awaiting(req[r]))
                  => req'[r].h = sessions[req'[r].sid]
             /\ Awaiting(req[r]) /\ req[r].h # 0 => req'[r].h = req[r].h
     /\ \A h \in Handles :
          (Moving # {} /\ page'[h] # page[h]) => \E r \in Moving : req[r].h = h]_vars

\* a verify-code request works on the browser stored under its id while
\* another id is registered with a browser of its own
C20_Witness ==
  \E r \in Reqs :
    /\ req[r].op = "verifyCode" /\ req[r].touched /\ req[r].h # 0
    /\ sessions[req[r].sid] = req[r].h
    /\ \E id \in Registered : id # req[r].sid

(***************************************************************************)
(* Failures and retries                                                    *)
(***************************************************************************)
\* C21: a step in which a stage operation on a registered session ends with
\* the 500 outcome leaves the registry and the browsers as they were; and a
\* request of the same operation that arrives after such a failure is not
\* answered "Session not found": when its body passes the checks it gets the
\* session's browser and is processed.
C21_FailureKeepsSession ==
  [][\A r \in Moving :
       /\ (req'[r].op \in StageOps /\ req'[r].h # 0 /\ req'[r].resp.status = 500)
            => sessions' = sessions /\ launched' = launched
       /\ (req'[r].op \in StageOps /\ req'[r].again /\ ~Awaiting(req[r]))
            => /\ req'[r].resp # SessionNotFound(req'[r].op)
               /\ Validate(req'[r].op, req'[r].body) = NoResp
                    => /\ req'[r].pc = FirstPc(req'[r].op)
                       /\ req'[r].h = sessions[req'[r].sid] /\ req'[r].h # 0]_vars

\* a verify-code request that arrived after an earlier one had failed with
\* 500 has typed and submitted the code on the session's page
C21_Witness ==
  \E r \in Reqs :
    /\ req[r].op = "verifyCode" /\ req[r].again /\ req[r].mutated
    /\ req[r].h = sessions[req[r].sid]

(***************************************************************************)
(* The completion check of select-tile                                     *)
(***************************************************************************)
\* The step reports a change for the request in slot r: it goes on to read
\* the heading, or answers with the dead-end outcome.
ReportsChange(r) ==
  /\ req[r].op = "selectTile" /\ req[r].pc \in {"compare", "caught"}
  /\ \/ req'[r].pc = "header"
     \/ req'[r].pc = "done" /\ req'[r].resp = Send(200, "lastcve")

\* C22: a change is reported only if the address read after the race differs
\* from the baseline address, whether the race resolved or a raced signal
\* failed.
C22_ChangeOnlyIfDifferent ==
  [][\A r \in Moving :
       ReportsChange(r) => page[req[r].h].url # req[r].url]_vars

\* C23: the baseline address of a tile selection is the page's address as it
\* was when the tile was clicked.
C23_BaselineIsPreClick ==
  \A r \in Reqs :
    (/\ req[r].op \in {"selectTile", "selectTile2"}
     /\ req[r].pc \in {"race", "compare", "header", "caught"})
    => req[r].url = req[r].pre

\* C24: a tile selection that clicked a tile and met no failure of the
\* browser is not answered with an error outcome.
C24_NoChangeIsNoError ==
  \A r \in Reqs :
    (req[r].op = "selectTile" /\ req[r].pc = "done" /\ req[r].clicks > 0 /\ ~req[r].broke)
    => req[r].resp.status < 400

\* C25: a select-tile request clicks at most one tile, and it is answered
\* "No puzzle tiles found" only when it clicked none.
C25_AtMostOneClick ==
  \A r \in Reqs :
    req[r].op = "selectTile"
    => /\ req[r].clicks <= 1
       /\ req[r].resp = Json(404, "error", "No puzzle tiles found") => req[r].clicks = 0

(***************************************************************************)
(* The wrong-tile alert and its "Try again" button                         *)
(***************************************************************************)
\* The request met the alert together with the "Try again" button.
MetRetry(q) == q.op = "selectTile2" /\ q.shown \in {"retry", "retryBlob"}

\* C26: a tile selection that met the alert and the "Try again" button, once
\* its handler has ended, has been answered with a retry outcome (not an
\* error), has published a puzzle piece under its session id, and has left
\* the session registered.
C26_RetryRepublishes ==
  \A r \in Reqs :
    (MetRetry(req[r]) /\ req[r].pc = "done")
    => /\ req[r].sends = 1 /\ req[r].resp.status = 200
       /\ files[DownloadPath(req[r].sid)] # 0
       /\ sessions[req[r].sid] = req[r].h

(***************************************************************************)
(* The frame search: one click, one visit                                  *)
(***************************************************************************)
\* The positions of the log at which the evaluation found and clicked a
\* control (a click is what its evaluation reports).
Clicked(T, log) == {i \in 1..Len(log) : T[log[i]].eval = "match"}

\* C27: in one search at most one control is clicked, the click is the last
\* evaluation of the search, and the search then reports a match.
C27_StopsAtFirstMatch ==
  call.state = "returned"
  => /\ Cardinality(Clicked(call.tree, call.log)) <= 1
     /\ \A i \in Clicked(call.tree, call.log) : i = Len(call.log) /\ call.found

\* the search clicked in one frame and left unevaluated a frame that has the
\* control too
C27_Witness ==
  /\ call.state = "returned" /\ Clicked(call.tree, call.log) # {}
  /\ \E f \in DOMAIN call.tree :
       /\ call.tree[f].eval = "match"
       /\ \A i \in 1..Len(call.log) : call.log[i] # f

\* C28: every search that is called returns, and it has evaluated frames of
\* the tree only, each at most once.
C28_TerminatesVisitingOnce ==
  /\ (call.state = "called") ~> (call.state = "returned")
  /\ [](call.state = "returned"
        => /\ \A i \in 1..Len(call.log) : call.log[i] \in DOMAIN call.tree
           /\ \A i, j \in 1..Len(call.log) : call.log[i] = call.log[j] => i = j)

\* a search over a tree of MaxFrames frames, three levels deep, has returned
\* after evaluating every frame
C28_Witness ==
  /\ call.state = "returned" /\ Len(call.log) = MaxFrames
  /\ \E f \in DOMAIN call.tree : \E g \in DOMAIN call.tree :
       /\ call.tree[f].kids # <<>> /\ f # 1
       /\ g = call.tree[f].kids[1]

(***************************************************************************)
(* handleCaptchaChallenge without a start control                          *)
(***************************************************************************)
\* The step is a search of handleCaptchaChallenge, run for the login in slot
\* r, that finds no start control in any frame of the page.
SearchFindsNone(r) ==
  /\ req[r].op \in LoginOps /\ req[r].pc = "captcha"
  /\ ~FindAndClick(PageTree(page[req[r].h]), 1).found

\* C29: when the search finds no start control, handleCaptchaChallenge
\* returns true at once: no frame is inspected for tiles, no file is written,
\* and the value returned is true for every challenge count.
C29_NoControlIsSatisfied ==
  [][/\ \A c \in 0..3 : NoButton(c) = "true"
     /\ \A r \in Moving :
          SearchFindsNone(r)
          => /\ req'[r].pc = "done" /\ req'[r].ret = "true"
             /\ req'[r].idx = req[r].idx
             /\ files' = files]_vars

\* a login's puzzle handling has returned true after one search, and no
\* puzzle piece exists for its session
C29_Witness ==
  \E r \in Reqs :
    /\ req[r].op \in LoginOps /\ req[r].pc = "done" /\ req[r].ret = "true"
    /\ req[r].searches = 1 /\ files[DownloadPath(req[r].sid)] = 0

(***************************************************************************)
(* What handlePuzzleTiles publishes                                        *)
(***************************************************************************)
\* The step is the first evaluation of handlePuzzleTiles for the login in
\* slot r: it goes on to read the first tile's image exactly when it counts
\* six tiles in the frame.
CountsTiles(r) == req[r].op \in LoginOps /\ req[r].pc = "tiles"

LoginsOn(h) == {l \in Reqs : req[l].op = "login" /\ req[l].h = h}

\* C31: once a tile selection that detected an address change has been
\* answered and the login that drives the session's puzzle has ended, that
\* login has run the puzzle search a second time.
C31_SecondRoundSearched ==
  \A r \in Reqs :
    (req[r].op = "selectTile" /\ req[r].changed /\ req[r].pc = "done")
    => \A l \in LoginsOn(req[r].h) : req[l].pc = "done" => req[l].searches >= 2

\* C32: no step removes or replaces an entry of the registry.
C32_RegistryOnlyGrows ==
  [][\A id \in Ids : sessions[id] # NoSession => sessions'[id] = sessions[id]]_vars

(***************************************************************************)
(* Requests for one session at the same time                               *)
(***************************************************************************)
\* C33: nothing serializes the requests for a session: a stage handler that
\* is under way can always make its next call on the page, whatever other
\* handlers are under way on the same page.
C33_NotSerialized ==
  \A r \in Reqs :
    (req[r].op \in StageOps /\ Awaiting(req[r])) => ENABLED StageNext(r)

\* two select-tile requests for one session are both between their first
\* and their last call on the session's page
C33_Witness ==
  \E r1, r2 \in Reqs :
    /\ r1 # r2 /\ req[r1].h = req[r2].h /\ req[r1].h # 0
    /\ \A r \in {r1, r2} :
         req[r].op = "selectTile" /\ Awaiting(req[r]) /\ req[r].touched

(***************************************************************************)
(* Tile selection again and again                                          *)
(***************************************************************************)
\* In the step a select-tile request with an index in 1..6 arrives in slot
\* r for a session that is registered.
ValidSelectionArrives(r) ==
  /\ ~Awaiting(req[r]) /\ req'[r] # req[r] /\ req'[r].op = "selectTile"
  /\ req'[r].body.tileNumber.t = "number" /\ InRange(req'[r].body.tileNumber)
  /\ req'[r].sid # Null /\ sessions[req'[r].sid] # NoSession

\* C34: a select-tile request with a valid index for a registered session is
\* taken up (it gets the session's page and goes to its first frame) however
\* many tile selections of the session came before it and however they
\* ended.
C34_NoRetryCeiling ==
  [][\A r \in Reqs :
       ValidSelectionArrives(r)
       => /\ req'[r].pc = "frame" /\ req'[r].sends = 0
          /\ req'[r].h = sessions[req'[r].sid]]_vars

\* a third tile selection for the session is clicking, after two that
\* clicked and were answered "No puzzle tiles found"
C34_Witness ==
  \E r \in Reqs :
    /\ req[r].op = "selectTile" /\ req[r].prior = 2 /\ req[r].clicks > 0
    /\ \E r2 \in EndedSelections(req[r].sid) :
         req[r2].resp = Json(404, "error", "No puzzle tiles found")

(***************************************************************************)
(* Registration and the login response                                     *)
(***************************************************************************)
\* The logins of app3.js that have been answered "1" for the id.
Succeeded(sid) ==
  {l \in Reqs : req[l].op = "login" /\ req[l].sid = sid /\ req[l].resp = Send(200, "1")}

\* C35: a session whose login has been answered "1" is in the registry; a
\* stage request that arrives after that answer is not answered "Session not
\* found"; and a login that failed before it submitted the credentials has
\* written no entry.
C35_RegisteredBeforeAnswer ==
  [][/\ \A l \in Reqs :
          (req'[l].op = "login" /\ req'[l].resp = Send(200, "1"))
          => sessions'[req'[l].sid] # NoSession
     /\ \A r \in Moving :
          (req'[r].op \in StageOps /\ ~Awaiting(req[r]) /\ Succeeded(req'[r].sid) # {})
          => req'[r].resp # SessionNotFound(req'[r].op)
     /\ \A l \in Reqs :
          (req'[l].op = "login" /\ req'[l].pc = "done" /\ ~req'[l].mutated)
          => /\ req'[l].resp.status \in {400, 500}
             /\ req'[l].h # 0 => sessions'[req'[l].sid] # req'[l].h]_vars

\* a verify-code request works on the page of a session whose login has
\* answered "1" and is still handling the puzzle
C35_Witness ==
  \E r, l \in Reqs :
    /\ l \in Succeeded(req[r].sid) /\ Awaiting(req[l])
    /\ req[r].op = "verifyCode" /\ req[r].h = req[l].h /\ req[r].touched
    /\ sessions[req[r].sid] = req[l].h

(***************************************************************************)
(* One search for each login                                               *)
(***************************************************************************)
\* The login q has gone through its puzzle handling and has ended without a
\* failure of the browser.
PuzzleHandled(q) == q.op = "login" /\ q.pc = "done" /\ q.mutated /\ ~q.broke

\* C36: a login of app3.js never runs the start-control search more than
\* once and has run it exactly once when its puzzle handling has ended; its
\* challenge count stays 0, and from the inspection of the tiles it never
\* goes back to the search.
C36_OneSearchPerLogin ==
  [][\A r \in Reqs :
       req'[r].op = "login"
       => /\ req'[r].count = 0 /\ req'[r].searches <= 1
          /\ req[r].pc \in {"tiles", "blob"} => req'[r].pc # "captcha"
          /\ PuzzleHandled(req'[r]) => req'[r].searches = 1]_vars

\* a login has ended after one search although it found the start control,
\* six tiles and the blob, and published the piece
C36_Witness ==
  \E r \in Reqs :
    /\ PuzzleHandled(req[r]) /\ req[r].searches = 1 /\ req[r].count = 0
    /\ req[r].ret = "none" /\ files[DownloadPath(req[r].sid)] # 0

====
